---- MODULE Spec2Model ----
(***************************************************************************)
(* Mosa: the facade built by initializeMosa (src/src/Mosa.ts) over the     *)
(* solid-js backend bound by the adapters (src/src/Plugins/SolidJs.ts,     *)
(* src/unnamed/part_000, src/unnamed/part_001).                            *)
(*                                                                         *)
(* The state is the state of the backend the facade closes over: the       *)
(* signals made by useProp, the memos made by useFormula, the effects made *)
(* by doWatch, and solid-js's queue of effects that wait for the end of    *)
(* the running root function (createEffect and a signal's setter run an    *)
(* effect at once only when no root function is running).                  *)
(*                                                                         *)
(* lastOp records the most recent facade call: which backend operations it *)
(* invoked, with what, and what it returned or whether it raised.          *)
(***************************************************************************)
EXTENDS Integers, Sequences, FiniteSets, TLC

VARIABLES cfg, sig, formulas, watchers, Effects, inRoot, lastOp

vars == <<cfg, sig, formulas, watchers, Effects, inRoot, lastOp>>

\* ---------------------------------------------------------------- bounds
MaxProps == 2
MaxFormulas == 1
MaxWatchers == 1
MaxNum == 40

\* ------------------------------------------------------------ JS values
\* A JavaScript value is <<type tag, payload>>; Str(0) is "", Bool(0) is false.
Null == <<"null", 0>>
Undefined == <<"undefined", 0>>
Num(n) == <<"number", n>>
Str(n) == <<"string", n>>
Bool(n) == <<"boolean", n>>
\* Fn(n) is a function that returns the number n, whatever it is given.
Fn(n) == <<"function", n>>
CallFn(f, x) == Num(f[2])

\* The values given to exists and doNow.
JsVals == {Null, Undefined} \cup {Num(n) : n \in 0..MaxNum}
            \cup {Str(n) : n \in 0..MaxNum} \cup {Bool(n) : n \in 0..1}

\* The initial values given to props, and the values assigned to them.
PropVals == {Null, Num(1)}
AssignVals == PropVals \cup {Fn(1)}

\* JavaScript truthiness and ToNumber on the modelled values.
Truthy(x) == x[1] \notin {"null", "undefined"} /\ x[2] # 0
ToNumber(x) == IF x[1] = "number" THEN x[2] ELSE 0

\* exists(x): x !== undefined && x !== null.
\* (variant: a truthiness test)
exists_truthy(x) == Truthy(x)
exists(x) == x[1] # "undefined" /\ x[1] # "null"

\* --------------------------------------------------------- configurations
AllOps == {"createRoot", "createSignal", "createComputed", "createAutoEffect",
           "createManualEffect", "onDispose"}
\* mosaForSolid's configuration: all six operations.
FullConfig == AllOps
\* mosaConfigForSolid: neither createRoot nor onDispose.
PartialConfig == AllOps \ {"createRoot", "onDispose"}
Configs == {FullConfig, PartialConfig}

\* ------------------------------------------------------------- references
\* A reactive value is a prop <<"p", i>> or a formula <<"f", j>>.
PRef(i) == <<"p", i>>
FRef(j) == <<"f", j>>

\* The formulas built: the j-th formula derives from the j-th prop, with or
\* without a setter that writes that prop.
FormulaShapes == {[kind |-> "doubled", hasSetter |-> FALSE],
                  [kind |-> "nonNull", hasSetter |-> TRUE]}
Bodies == {"readSecond", "branch", "readFormula"}

\* compute of a formula over the signal values:
\*   doubled:  () => p.value * 2        nonNull:  () => p.value ?? 0
compute(f, s) ==
  IF f.kind = "doubled" THEN Num(2 * ToNumber(s[f.src]))
  ELSE IF exists(s[f.src]) THEN s[f.src] ELSE Num(0)

\* The store the backend operations transform.
Store == [sig |-> sig, formulas |-> formulas, watchers |-> watchers,
          Effects |-> Effects, inRoot |-> inRoot]

\* signal.value for a prop (the signal's getter) or a formula (the memo's getter).
ReadRef(st, r) ==
  IF r[1] = "p" THEN st.sig[r[2]] ELSE st.formulas[r[2]].cache


\* ------------------------------------------------------ backend: solid-js
Range(q) == {q[k] : k \in DOMAIN q}

\* The reactive values the body of an effect function reads when it runs in st.
\*   readSecond:  () => { p2.value }
\*   branch:      () => { if (p1.value) p2.value }
\*   readFormula: () => { f1.value }
BodyReads(body, st) ==
  CASE body = "readSecond" -> {PRef(2)}
    [] body = "branch" -> IF Truthy(st.sig[1]) THEN {PRef(1), PRef(2)} ELSE {PRef(1)}
    [] body = "readFormula" -> {FRef(1)}

\* The tracked reads of one run of an effect.  createAutoEffect: createEffect(fn)
\* tracks what fn reads.  createManualEffect: createEffect(on(deps, fn)) reads
\* every listed signal.value tracked and runs fn untracked.
\* (variants: on(...) that also tracks the reads of fn; subscriptions that are
\* never dropped)
TrackedReads_bodyToo(w, st) == Range(w.on) \cup BodyReads(w.body, st)
TrackedReads_sticky(w, st) ==
  IF w.manual THEN Range(w.on) ELSE w.deps \cup BodyReads(w.body, st)
TrackedReads(w, st) ==
  IF w.manual THEN Range(w.on) ELSE BodyReads(w.body, st)

\* One run of an effect: fn is invoked once and the subscriptions are replaced by
\* the reads of this run.  runs counts the invocations of fn during the current
\* facade call; lastReads is what fn read in this run and everRead what it read
\* in any of its runs.
updateComputation(w, st) ==
  [w EXCEPT !.runs = @ + 1,
            !.deps = TrackedReads(w, st),
            !.lastReads = BodyReads(w.body, st),
            !.everRead = @ \cup BodyReads(w.body, st)]

\* createSignal(initValue): a new cell holding initValue.
createSignal(st, v) == [st EXCEPT !.sig = Append(@, v)]

\* createMemo(compute): the memo is computed when it is created.
createMemo(st, f) ==
  [st EXCEPT !.formulas = Append(@, [f EXCEPT !.cache = compute(f, st.sig)])]

\* q followed by the members of S that are not in q, in increasing order.
RECURSIVE Enqueue(_, _)
Enqueue(q, S) ==
  IF S \subseteq Range(q) THEN q
  ELSE LET m == CHOOSE x \in S \ Range(q) : \A y \in S \ Range(q) : x <= y
       IN Enqueue(Append(q, m), S)

\* The memos after the signals became s: a memo is recomputed before any effect
\* runs (memos are "pure" computations, run from the Updates queue).
\* (variant: memos that are never recomputed)
Recomputed_stale(fs, s) == fs
Recomputed(fs, s) ==
  [j \in DOMAIN fs |-> [fs[j] EXCEPT !.cache = compute(fs[j], s)]]

\* A signal takes the value v.  A value equal to the current one notifies nobody.
\* Otherwise the memos reading it are recomputed, and every effect subscribed to
\* a value that changed is run: now, or when the running root function returns
\* if there is one (the effect then waits in Effects).
writeSignal(st, p, v) ==
  IF st.sig[p] = v THEN st
  ELSE LET s2 == [st.sig EXCEPT ![p] = v]
           f2 == Recomputed(st.formulas, s2)
           st2 == [st EXCEPT !.sig = s2, !.formulas = f2]
           changed == {PRef(p)} \cup
                      {FRef(j) : j \in {k \in DOMAIN f2 : f2[k].cache # st.formulas[k].cache}}
           stale == {i \in DOMAIN st.watchers : st.watchers[i].deps \cap changed # {}}
       IN IF st.inRoot
          THEN [st2 EXCEPT !.Effects = Enqueue(@, stale)]
          ELSE [st2 EXCEPT !.watchers =
                  [i \in DOMAIN @ |-> IF i \in stale THEN updateComputation(@[i], st2)
                                                    ELSE @[i]]]

\* set(newValue), the setter createSignal returns and the adapter hands on as it
\* is: a newValue that is a function is called with the current value, and its
\* result is what the signal takes.
signalSet(st, p, v) ==
  writeSignal(st, p, IF v[1] = "function" THEN CallFn(v, st.sig[p]) ELSE v)

\* createEffect(fn): outside a running root function the effect runs at once;
\* inside one it is queued until the root function has returned.
createEffect(st, w) ==
  IF st.inRoot
  THEN [st EXCEPT !.watchers = Append(@, w),
                  !.Effects = Append(@, Len(st.watchers) + 1)]
  ELSE [st EXCEPT !.watchers = Append(@, updateComputation(w, st))]

\* The end of createRoot(func): the queued effects run, each once.
completeUpdates(st) ==
  [st EXCEPT !.watchers =
               [i \in DOMAIN @ |-> IF i \in Range(st.Effects)
                                   THEN updateComputation(@[i], st) ELSE @[i]],
             !.Effects = <<>>,
             !.inRoot = FALSE]


\* ------------------------------------------------------------ the facade
\* The options argument of doWatch.  `on` is <<"undefined", <<>>>>, <<"null", <<>>>>
\* or <<"list", L>> with L a sequence of reactive values.
UndefinedOn == <<"undefined", <<>>>>
NullOn == <<"null", <<>>>>
ListOn(L) == <<"list", L>>
NoOptions == [present |-> FALSE, hasOn |-> FALSE, on |-> UndefinedOn]
EmptyOptions == [present |-> TRUE, hasOn |-> FALSE, on |-> UndefinedOn]
WithOn(o) == [present |-> TRUE, hasOn |-> TRUE, on |-> o]

\* options?.on
OptionsOn(o) == IF o.present /\ o.hasOn THEN o.on ELSE UndefinedOn

\* The record of a facade call.
Call(name) ==
  [op |-> name, threw |-> FALSE, calls |-> <<>>, sargs |-> <<>>, arg |-> Undefined,
   target |-> 0, changed |-> FALSE, opts |-> NoOptions, passedOn |-> <<>>,
   detached |-> FALSE, ret |-> Undefined]

\* mosaConfig.<name>(...) raises a TypeError when the configuration lacks <name>;
\* initializeMosa itself reads nothing of mosaConfig.
\* (variant: a facade that refuses to work over an incomplete configuration)
Missing_validated(name) == cfg # AllOps
Missing(name) == name \notin cfg

\* The record of a facade call that raised.
Threw(name) == [Call(name) EXCEPT !.threw = TRUE]

\* The store at the start of a facade call: no effect has run during it yet.
Begin ==
  [Store EXCEPT !.watchers = [i \in DOMAIN @ |-> [@[i] EXCEPT !.runs = 0]]]

\* The store a facade call leaves behind.
Commit(st) ==
  \E s \in {st} :
    /\ sig' = s.sig
    /\ formulas' = s.formulas
    /\ watchers' = s.watchers
    /\ Effects' = s.Effects
    /\ inRoot' = s.inRoot

\* useProp(initValue)
UseProp(v) ==
  /\ Len(sig) < MaxProps
  /\ IF Missing("createSignal")
     THEN /\ Commit(Begin)
          /\ lastOp' = Threw("useProp")
     ELSE /\ Commit(createSignal(Begin, v))
          /\ lastOp' = [Call("useProp") EXCEPT !.calls = <<"createSignal">>, !.arg = v,
                                               !.target = Len(sig) + 1]
  /\ UNCHANGED cfg

\* prop.value = newValue
SetProp(p, v) ==
  /\ p \in DOMAIN sig
  /\ Commit(signalSet(Begin, p, v))
  /\ lastOp' = [Call("setProp") EXCEPT !.arg = v, !.target = p,
                                       !.changed = (sig' # sig)]
  /\ UNCHANGED cfg

\* useFormula(compute, set?)
UseFormula(sh, src) ==
  /\ Len(formulas) < MaxFormulas
  /\ src = Len(formulas) + 1
  /\ src \in DOMAIN sig
  /\ IF Missing("createComputed")
     THEN /\ Commit(Begin)
          /\ lastOp' = Threw("useFormula")
     ELSE /\ Commit(createMemo(Begin, [kind |-> sh.kind, src |-> src,
                                       hasSetter |-> sh.hasSetter, cache |-> Undefined]))
          /\ lastOp' = [Call("useFormula") EXCEPT !.calls = <<"createComputed">>,
                                                  !.target = Len(formulas) + 1]
  /\ UNCHANGED cfg

\* The invocations of the setter made by `formula.value = newValue`: set?.(newValue).
\* (variant: the setter invoked twice)
setterCalls_twice(f, x) == IF f.hasSetter THEN <<x, x>> ELSE <<>>
setterCalls(f, x) == IF f.hasSetter THEN <<x>> ELSE <<>>

\* Whether `formula.value = newValue` raises: the optional call never does.
\* (variant: set(newValue), which raises when there is no setter)
setterThrows_plainCall(f, x) == ~f.hasSetter
setterThrows(f, x) == FALSE

\* The setter of the modelled formulas: (x) => (p.value = x), p the prop it reads.
RECURSIVE ApplySetter(_, _, _)
ApplySetter(st, f, xs) ==
  IF xs = <<>> THEN st
  ELSE ApplySetter(signalSet(st, f.src, Head(xs)), f, Tail(xs))

\* formula.value = newValue
SetFormula(j, x) ==
  /\ j \in DOMAIN formulas
  /\ LET f == formulas[j]
     IN IF setterThrows(f, x)
        THEN /\ Commit(Begin)
             /\ lastOp' = [Threw("setFormula") EXCEPT !.arg = x, !.target = j]
        ELSE /\ Commit(ApplySetter(Begin, f, setterCalls(f, x)))
             /\ lastOp' = [Call("setFormula") EXCEPT !.arg = x, !.target = j,
                                                     !.changed = (sig' # sig),
                                                     !.sargs = setterCalls(f, x)]
  /\ UNCHANGED cfg

\* doNow(func), func returning v
DoNow(v) ==
  /\ lastOp' = [Call("doNow") EXCEPT !.arg = v, !.ret = v]
  /\ Commit(Begin)
  /\ UNCHANGED cfg

\* exists(x), called through the facade
Exists(x) ==
  /\ lastOp' = [Call("exists") EXCEPT !.arg = x,
                                      !.ret = Bool(IF exists(x) THEN 1 ELSE 0)]
  /\ Commit(Begin)
  /\ UNCHANGED cfg

\* The branch of doWatch: exists(options?.on).  bound says whether doWatch was
\* called as a method of the facade; the test does not look at the receiver.
\* (variant: a test of options?.on?.length)
usesManual_nonEmpty(bound, on) == exists(on) /\ on[2] # <<>>
usesManual(bound, on) == exists(on)

\* The reactive values an effect body mentions exist.
BodyOk(body) ==
  CASE body = "readSecond" -> Len(sig) >= 2
    [] body = "branch" -> Len(sig) >= 2
    [] body = "readFormula" -> Len(formulas) >= 1

Refs == {PRef(i) : i \in DOMAIN sig} \cup {FRef(j) : j \in DOMAIN formulas}

\* The lists given as `on`.
OnLists == {<<>>, <<PRef(1)>>, <<FRef(1)>>, <<PRef(1), FRef(1)>>}

OptionsSet == {NoOptions, EmptyOptions, WithOn(UndefinedOn), WithOn(NullOn)}
                \cup {WithOn(ListOn(L)) : L \in OnLists}

\* The effect functions given with an `on` list read the second prop, which is
\* in none of the lists; those given without one read the others.
BodiesFor(o) ==
  IF exists(OptionsOn(o)) THEN {"readSecond"} ELSE {"branch", "readFormula"}

\* doWatch(func, options?)
DoWatch(body, o, bound) ==
  /\ Len(watchers) < MaxWatchers
  /\ body \in BodiesFor(o)
  /\ BodyOk(body)
  /\ Range(OptionsOn(o)[2]) \subseteq Refs
  /\ LET on == OptionsOn(o)
         manual == usesManual(bound, on)
         ctor == IF manual THEN "createManualEffect" ELSE "createAutoEffect"
         w == [body |-> body, manual |-> manual,
               on |-> IF manual THEN on[2] ELSE <<>>,
               deps |-> {}, runs |-> 0, lastReads |-> {}, everRead |-> {}]
     IN IF Missing(ctor)
        THEN /\ Commit(Begin)
             /\ lastOp' = [Threw("doWatch") EXCEPT !.opts = o, !.detached = ~bound]
        ELSE /\ Commit(createEffect(Begin, w))
             /\ lastOp' = [Call("doWatch") EXCEPT
                             !.calls = <<ctor>>,
                             !.passedOn = IF manual THEN on[2] ELSE <<>>,
                             !.opts = o, !.detached = ~bound,
                             !.target = Len(watchers) + 1]
  /\ UNCHANGED cfg

\* useRoot(func): mosaConfig.createRoot(func) starts running func.
UseRootBegin ==
  /\ ~inRoot
  /\ IF Missing("createRoot")
     THEN /\ lastOp' = Threw("useRoot")
          /\ Commit(Begin)
     ELSE /\ lastOp' = [Call("useRootBegin") EXCEPT !.calls = <<"createRoot">>]
          /\ Commit([Begin EXCEPT !.inRoot = TRUE])
  /\ UNCHANGED cfg

\* func returns v: the queued effects run and useRoot returns v.
UseRootEnd(v) ==
  /\ inRoot
  /\ Commit(completeUpdates(Begin))
  /\ lastOp' = [Call("useRoot") EXCEPT !.calls = <<"createRoot">>, !.ret = v]
  /\ UNCHANGED cfg

\* onDispose(func)
OnDispose ==
  /\ IF Missing("onDispose")
     THEN lastOp' = Threw("onDispose")
     ELSE lastOp' = [Call("onDispose") EXCEPT !.calls = <<"onDispose">>]
  /\ Commit(Begin)
  /\ UNCHANGED cfg

\* ---------------------------------------------------------- specification
\* initializeMosa(mosaConfig) has returned the facade; nothing is created yet.
Init ==
  /\ cfg \in Configs
  /\ sig = <<>>
  /\ formulas = <<>>
  /\ watchers = <<>>
  /\ Effects = <<>>
  /\ inRoot = FALSE
  /\ lastOp = Call("initializeMosa")

Next ==
  \/ \E v \in PropVals : UseProp(v)
  \/ \E p \in 1..MaxProps, v \in AssignVals : SetProp(p, v)
  \/ \E sh \in FormulaShapes, p \in 1..MaxProps : UseFormula(sh, p)
  \/ \E j \in 1..MaxFormulas, x \in PropVals : SetFormula(j, x)
  \/ \E v \in {Num(1)} : DoNow(v)
  \/ \E x \in {Null} : Exists(x)
  \/ \E b \in Bodies, o \in OptionsSet, bound \in BOOLEAN : DoWatch(b, o, bound)
  \/ UseRootBegin
  \/ \E v \in {Undefined} : UseRootEnd(v)
  \/ OnDispose

Spec == Init /\ [][Next]_vars

\* The pure operations of the facade, applied to every modelled value.
NextPure ==
  \/ \E v \in JsVals : DoNow(v)
  \/ \E x \in JsVals : Exists(x)

SpecPure == Init /\ [][NextPure]_vars

\* ------------------------------------------------------------ properties
Top == ~inRoot

\* The value of reactive value r differs before and after the step.
Changed(r) == ReadRef(Store', r) # ReadRef(Store, r)

\* Effect i waits in the queue of the running root function.
Queued(i) == i \in Range(Effects)

\* How the invocations of effect i during one facade call follow from the set S
\* of values it watches.  Outside a root function a call that changes a value
\* of S invokes fn once before it returns and any other call does not invoke
\* it; inside a root function no call invokes fn, and a change of a value of S
\* queues the effect; when the root function returns, fn is invoked once if the
\* effect is queued and not at all otherwise.
InvokedPerChange(i, S) ==
  LET hit == \E r \in S : Changed(r)
  IN /\ (Top /\ Top') => watchers'[i].runs = IF hit THEN 1 ELSE 0
     /\ inRoot' => watchers'[i].runs = 0
     /\ (inRoot /\ inRoot') => (Queued(i)' <=> (Queued(i) \/ hit))
     /\ (inRoot /\ Top') => watchers'[i].runs = IF Queued(i) THEN 1 ELSE 0

\* C1: reading f.value of a formula gives the result of compute on the current
\* values of the props, in every state: after any sequence of writes, inside or
\* outside a root function.
C1_FormulaIsCurrent ==
  \A j \in DOMAIN formulas :
    ReadRef(Store, FRef(j)) = compute(formulas[j], sig)

\* counter = useProp(null), doubled = useFormula(() => counter.value * 2), then
\* counter.value = 1: doubled.value is 2.
C1_Witness ==
  /\ lastOp.op = "setProp" /\ lastOp.target = 1 /\ lastOp.changed
  /\ formulas # <<>>
  /\ formulas[1].kind = "doubled"
  /\ sig[1] = Num(1)
  /\ ReadRef(Store, FRef(1)) = Num(2)

\* C2: after useProp(v), p.value reads v; after p.value = x, p.value reads x.
C2_PropReadsLastAssignment ==
  (lastOp.op \in {"useProp", "setProp"} /\ ~lastOp.threw) =>
    ReadRef(Store, PRef(lastOp.target)) = lastOp.arg

\* C3: an effect registered with a list `on` is invoked once by a call that
\* changes a listed value and by no other call, whatever its body reads (inside a
\* root function the invocations wait for its end and are merged into one).
C3_ManualWatchesItsList ==
  [][\A i \in DOMAIN watchers :
       watchers[i].manual => InvokedPerChange(i, Range(watchers[i].on))]_vars

\* doWatch(() => p2.value, {on: [p1]}): a write changed p2, which fn reads, and
\* fn was not invoked.
C3_Witness ==
  /\ watchers # <<>>
  /\ watchers[1].manual /\ watchers[1].on = <<PRef(1)>>
  /\ PRef(2) \in watchers[1].lastReads
  /\ lastOp.op = "setProp" /\ lastOp.target = 2 /\ lastOp.changed
  /\ watchers[1].runs = 0
  /\ Top

\* C4: an effect registered without `on` is invoked once by a call that changes
\* a value fn read in its most recent run and by no other call, and it is
\* subscribed to exactly the values its most recent run read.
C4_AutoWatchesLastReads ==
  [][\A i \in DOMAIN watchers :
       ~watchers[i].manual =>
         /\ InvokedPerChange(i, watchers[i].lastReads)
         /\ watchers[i].deps = watchers[i].lastReads]_vars

\* fn = () => { if (p1.value) p2.value } read p2 in an earlier run and not in its
\* latest one; a write then changed p2 and fn was not invoked.
C4_Witness ==
  /\ watchers # <<>>
  /\ ~watchers[1].manual /\ watchers[1].body = "branch"
  /\ PRef(2) \in watchers[1].everRead
  /\ PRef(2) \notin watchers[1].lastReads
  /\ lastOp.op = "setProp" /\ lastOp.target = 2 /\ lastOp.changed
  /\ watchers[1].runs = 0
  /\ Top

\* C5: when doWatch returns, fn has been invoked exactly once.
C5_InvokedOnceBeforeReturn ==
  (lastOp.op = "doWatch" /\ ~lastOp.threw) => watchers[lastOp.target].runs = 1

\* C6: f.value = x on a formula with a setter invokes the setter once, with x,
\* and does not raise; no prop other than the one the setter writes changes, and
\* f.value then reads compute on the props as the setter left them: nothing of
\* x is kept in f.
C6_SetterInvokedOnce ==
  [][(lastOp'.op = "setFormula" /\ formulas[lastOp'.target].hasSetter) =>
       LET f == formulas[lastOp'.target]
       IN /\ ~lastOp'.threw
          /\ lastOp'.sargs = <<lastOp'.arg>>
          /\ \A p \in DOMAIN sig : p # f.src => sig'[p] = sig[p]
          /\ ReadRef(Store', FRef(lastOp'.target)) = compute(f, sig')]_vars

\* nonNull.value = null: the setter got null and nonNull.value reads 0.
C6_Witness ==
  /\ lastOp.op = "setFormula" /\ formulas[lastOp.target].hasSetter
  /\ lastOp.arg = Null /\ lastOp.changed
  /\ ReadRef(Store, FRef(lastOp.target)) = Num(0)

\* C7: f.value = x on a formula without a setter raises nothing and changes
\* nothing: no prop, no formula, no subscription, no queue, and no effect is
\* invoked.
C7_SetterlessWriteIsNoOp ==
  [][(lastOp'.op = "setFormula" /\ ~formulas[lastOp'.target].hasSetter) =>
       /\ ~lastOp'.threw
       /\ lastOp'.sargs = <<>>
       /\ sig' = sig /\ formulas' = formulas
       /\ Effects' = Effects /\ inRoot' = inRoot
       /\ watchers' = Begin.watchers]_vars

\* doubled.value = 1 with an effect watching doubled.
C7_Witness ==
  /\ lastOp.op = "setFormula" /\ ~formulas[lastOp.target].hasSetter
  /\ lastOp.arg = Num(1)
  /\ ReadRef(Store, FRef(lastOp.target)) = Num(0)
  /\ watchers # <<>> /\ watchers[1].deps = {FRef(1)}

\* The backend operation a facade call needs, if any.
Needs(call) ==
  CASE call.op \in {"useRoot", "useRootBegin"} -> {"createRoot"}
    [] call.op = "onDispose" -> {"onDispose"}
    [] call.op = "useProp" -> {"createSignal"}
    [] call.op = "useFormula" -> {"createComputed"}
    [] call.op = "doWatch" ->
         IF OptionsOn(call.opts)[1] \in {"null", "undefined"}
         THEN {"createAutoEffect"} ELSE {"createManualEffect"}
    [] OTHER -> {}

\* C8: a call of the facade raises exactly when the backend operation it needs
\* is missing from the configuration; every other call invokes only operations
\* the configuration has, and initializeMosa does not raise.
C8_FailsOnlyOnMissingOperation ==
  /\ lastOp.threw <=> (Needs(lastOp) \ cfg # {})
  /\ ~lastOp.threw => Range(lastOp.calls) = Needs(lastOp)
  /\ lastOp.threw => lastOp.calls = <<>>

\* With mosaConfigForSolid, props, a formula and an effect were made, and then
\* useRoot raised.
C8_Witness ==
  /\ cfg = PartialConfig
  /\ sig # <<>> /\ formulas # <<>> /\ watchers # <<>>
  /\ watchers[1].deps # {}
  /\ lastOp.op = "useRoot" /\ lastOp.threw

\* C9: exists(x) is true exactly when x is neither null nor undefined: false for
\* null and undefined, true for 0, "" and false; it raises nothing.
C9_ExistsIffNotNullish ==
  lastOp.op = "exists" =>
    /\ ~lastOp.threw
    /\ lastOp.ret = IF lastOp.arg \in {Null, Undefined} THEN Bool(0) ELSE Bool(1)
    /\ sig = <<>> /\ formulas = <<>> /\ watchers = <<>> /\ Effects = <<>> /\ ~inRoot

\* exists("") returned true.
C9_Witness ==
  lastOp.op = "exists" /\ lastOp.arg = Str(0) /\ lastOp.ret = Bool(1)

====
